---- MODULE Spec2Model ----
(***************************************************************************)
(* A model of src/app.py, the Streamlit front end of the Lab Intelligence  *)
(* chatbot.  The script is executed from top to bottom on every user       *)
(* interaction and on every st.rerun(); st.session_state survives between  *)
(* runs.  One action of the model is one block of the script, pc is the    *)
(* position of the running script ("idle" when no script is running and    *)
(* the page waits for the user).                                           *)
(*                                                                         *)
(* Text is a sequence of tokens, so that concatenation is \o and a prefix  *)
(* put in front of a value can be told from the value.  A JSON value is a  *)
(* record [t, s]: t is "absent" (key missing), "null", "true", "false" or  *)
(* "str", and s is the text of a "str".                                    *)
(*                                                                         *)
(* The backend is modelled within its contract (a JSON object, or a falsy  *)
(* body) plus the transport failures; a script run is not interrupted by   *)
(* a user interaction (section 5 of the specification: synchronous, no     *)
(* cancellation).  Tables and charts are rendered from a message and       *)
(* change no state; they are not modelled.                                 *)
(***************************************************************************)
EXTENDS Naturals, Sequences, FiniteSets

VARIABLES
    session_keys,     \* the keys present in st.session_state
    messages,         \* st.session_state.messages
    query_history,    \* st.session_state.query_history
    current_question, \* st.session_state.current_question (<<>> when absent)
    pc,               \* position of the script run
    trigger,          \* the widget that caused this run, and its value
    healthy,          \* what check_api_health() returned in this run
    health_response,  \* what GET /health did, while check_api_health holds it
    question,         \* the script's local variable question
    outcome,          \* what POST /ask did in this run
    result,           \* the script's local variable result
    screen,           \* the elements this run has put on the page
    asked,            \* every question the user has submitted, in order
    handled,          \* every question the script has started to handle
    posts,            \* every POST /ask request sent, by its question
    pre               \* the session state when the user last interacted

vars == <<session_keys, messages, query_history, current_question, pc, trigger,
          healthy, health_response, question, outcome, result, screen,
          asked, handled, posts, pre>>

session == <<session_keys, messages, query_history, current_question>>
locals == <<healthy, health_response, question, outcome, result>>
logs == <<asked, handled, posts>>

----------------------------------------------------------------------------
(* Bounds *)

MaxQuestions == 2

----------------------------------------------------------------------------
(* Values *)

Absent == [t |-> "absent", s |-> <<>>]
Null == [t |-> "null", s |-> <<>>]
True == [t |-> "true", s |-> <<>>]
False == [t |-> "false", s |-> <<>>]
Lit(text) == [t |-> "str", s |-> text]
EmptyList == [t |-> "list", s |-> <<>>]
Zero == [t |-> "num", s |-> <<"0">>]

\* Python truthiness of a JSON value (None, False and "" are falsy)
Truthy(v) == v.t = "true" \/ (v.t = "str" /\ v.s # <<>>)

\* str(v), as an f-string formats a value
Str(v) ==
    CASE v.t = "str" -> v.s
      [] v.t = "null" -> <<"None">>
      [] v.t = "true" -> <<"True">>
      [] v.t = "false" -> <<"False">>
      [] OTHER -> <<>>

\* d.get(key, default) on a dict held as a record
Get(d, key, default) == IF key \in DOMAIN d THEN d[key] ELSE default

\* the body decoded by response.json(): a dict drops the keys that are absent
Dict(success, answer, sql_query, error) ==
    LET all == [success |-> success, answer |-> answer,
                sql_query |-> sql_query, error |-> error]
        present == {k \in DOMAIN all : all[k].t # "absent"}
    IN  [k \in present |-> all[k]]

quick_queries == {<<"Show all abnormal tests">>, <<"How many reports">>}
TypedQuestions == {<<"typed question">>}

NoTrigger == [widget |-> "none", text |-> <<>>]
NoQuestion == <<>>

\* outcomes of GET /health
HealthStatuses == {200, 204, 404, 503}
HealthExceptions == {"Timeout", "ConnectionError", "ValueError"}
NoResponse == [kind |-> "none", status |-> 0, exc |-> ""]
HealthOutcomes ==
    {[kind |-> "response", status |-> c, exc |-> ""] : c \in HealthStatuses}
    \cup {[kind |-> "raise", status |-> 0, exc |-> e] : e \in HealthExceptions}

\* outcomes of POST /ask
Answers == {Absent, Lit(<<"42 reports">>)}
Sqls == {Absent, Lit(<<"SELECT 1">>)}
Errors == {Absent, Null, Lit(<<"no such table">>)}
SuccessBodies == {Dict(True, a, q, Absent) : a \in Answers, q \in Sqls}
FailureBodies == {Dict(f, Absent, Absent, e) : f \in {Absent, False}, e \in Errors}
AskExceptions == {"Timeout", "ConnectionError", "HTTPError", "ValueError"}
RequestExceptions == {"Timeout", "ConnectionError", "HTTPError"}
NoOutcome == [kind |-> "none", exc |-> "", body |-> Dict(Absent, Absent, Absent, Absent)]
AskOutcomes ==
    {[kind |-> "json", exc |-> "", body |-> b] : b \in SuccessBodies \cup FailureBodies}
    \cup {[kind |-> "null", exc |-> "", body |-> Dict(Absent, Absent, Absent, Absent)]}
    \cup {[kind |-> "raise", exc |-> e, body |-> Dict(Absent, Absent, Absent, Absent)] :
            e \in AskExceptions}

\* the script's result: None, or the decoded body, or an exception passing through
NoResult == [kind |-> "unset", body |-> Dict(Absent, Absent, Absent, Absent)]
None == [kind |-> "None", body |-> Dict(Absent, Absent, Absent, Absent)]
Raised == [kind |-> "raised", body |-> Dict(Absent, Absent, Absent, Absent)]
Json(b) == [kind |-> "json", body |-> b]

\* bool(result): None and the empty dict are falsy
ResultTruthy(r) == r.kind = "json" /\ DOMAIN r.body # {}

Element(widget, value) == [widget |-> widget, text |-> value]

TimeoutText == <<"API Timeout: Request took longer than ", "API_TIMEOUT", " seconds.">>
ApiErrorPrefix == <<"API Error: ">>
QueryFailedPrefix == <<"Query failed: ">>
UnknownError == <<"Unknown error">>
ConnectFailedText == <<"Failed to connect to API.">>
DefaultAnswer == <<"Query executed successfully.">>

Snapshot == [keys |-> session_keys, messages |-> messages,
             query_history |-> query_history, current_question |-> current_question]

----------------------------------------------------------------------------
Init ==
    /\ session_keys = {}
    /\ messages = <<>>
    /\ query_history = <<>>
    /\ current_question = NoQuestion
    /\ pc = "init"
    /\ trigger = NoTrigger
    /\ healthy = FALSE
    /\ health_response = NoResponse
    /\ question = NoQuestion
    /\ outcome = NoOutcome
    /\ result = NoResult
    /\ screen = <<>>
    /\ asked = <<>>
    /\ handled = <<>>
    /\ posts = <<>>
    /\ pre = [keys |-> {}, messages |-> <<>>, query_history |-> <<>>,
              current_question |-> NoQuestion]

----------------------------------------------------------------------------
(* The two HTTP wrappers *)

\* a mutant of check_api_health: every 2xx status counts as healthy
check_api_health_any_2xx(o) ==
    IF o.kind = "response"
    THEN [returned |-> (o.status \in 200..299), raised |-> FALSE]
    ELSE [returned |-> FALSE, raised |-> FALSE]

\* check_api_health(): status 200 is healthy; the bare except turns every
\* exception into False
check_api_health(o) ==
    IF o.kind = "response"
    THEN [returned |-> (o.status = 200), raised |-> FALSE]
    ELSE [returned |-> FALSE, raised |-> FALSE]

\* a mutant of call_api: no handler for Timeout, which passes through
call_api_timeout_uncaught(q, o) ==
    CASE o.kind = "json" ->
           [sent |-> <<q>>, value |-> Json(o.body), shown |-> <<>>]
      [] o.kind = "null" ->
           [sent |-> <<q>>, value |-> None, shown |-> <<>>]
      [] o.kind = "raise" /\ o.exc \in RequestExceptions \ {"Timeout"} ->
           [sent |-> <<q>>, value |-> None,
            shown |-> <<Element("error", Lit(ApiErrorPrefix \o <<o.exc>>))>>]
      [] OTHER ->
           [sent |-> <<q>>, value |-> Raised,
            shown |-> <<Element("exception", Lit(<<o.exc>>))>>]

\* a mutant of call_api: a request that timed out is sent a second time
call_api_retry_on_timeout(q, o) ==
    CASE o.kind = "json" ->
           [sent |-> <<q>>, value |-> Json(o.body), shown |-> <<>>]
      [] o.kind = "null" ->
           [sent |-> <<q>>, value |-> None, shown |-> <<>>]
      [] o.kind = "raise" /\ o.exc = "Timeout" ->
           [sent |-> <<q, q>>, value |-> None,
            shown |-> <<Element("error", Lit(TimeoutText))>>]
      [] o.kind = "raise" /\ o.exc \in RequestExceptions \ {"Timeout"} ->
           [sent |-> <<q>>, value |-> None,
            shown |-> <<Element("error", Lit(ApiErrorPrefix \o <<o.exc>>))>>]
      [] OTHER ->
           [sent |-> <<q>>, value |-> Raised,
            shown |-> <<Element("exception", Lit(<<o.exc>>))>>]

\* call_api(question), given what the request did: the value the script gets
\* and the banners call_api shows.  Timeout and the other RequestExceptions
\* (raise_for_status's HTTPError among them) are caught; anything else passes
\* through.  JSON null decodes to None.
call_api(q, o) ==
    CASE o.kind = "json" ->
           [sent |-> <<q>>, value |-> Json(o.body), shown |-> <<>>]
      [] o.kind = "null" ->
           [sent |-> <<q>>, value |-> None, shown |-> <<>>]
      [] o.kind = "raise" /\ o.exc = "Timeout" ->
           [sent |-> <<q>>, value |-> None,
            shown |-> <<Element("error", Lit(TimeoutText))>>]
      [] o.kind = "raise" /\ o.exc \in RequestExceptions \ {"Timeout"} ->
           [sent |-> <<q>>, value |-> None,
            shown |-> <<Element("error", Lit(ApiErrorPrefix \o <<o.exc>>))>>]
      [] OTHER ->
           [sent |-> <<q>>, value |-> Raised,
            shown |-> <<Element("exception", Lit(<<o.exc>>))>>]

----------------------------------------------------------------------------
(* The user *)

ResetLocals ==
    /\ healthy' = FALSE
    /\ health_response' = NoResponse
    /\ question' = NoQuestion
    /\ outcome' = NoOutcome
    /\ result' = NoResult

StartRun(t) ==
    /\ pc = "idle"
    /\ pc' = "init"
    /\ trigger' = t
    /\ screen' = <<>>
    /\ pre' = Snapshot
    /\ ResetLocals
    /\ UNCHANGED <<session, handled, posts>>

\* the user edits the API URL or moves the timeout slider
ChangeSetting ==
    /\ StartRun(NoTrigger)
    /\ UNCHANGED asked

\* the user clicks a quick-query button
ClickQuick ==
    \E q \in quick_queries :
        /\ Len(asked) < MaxQuestions
        /\ StartRun([widget |-> "quick", text |-> q])
        /\ asked' = Append(asked, q)

\* the user clicks "Clear Chat History"
ClickClear ==
    /\ StartRun([widget |-> "clear", text |-> <<>>])
    /\ UNCHANGED asked

\* the user submits a question in the chat input
SubmitChat ==
    \E q \in TypedQuestions \cup quick_queries :
        /\ Len(asked) < MaxQuestions
        /\ StartRun([widget |-> "chat", text |-> q])
        /\ asked' = Append(asked, q)

----------------------------------------------------------------------------
(* The script, block by block *)

\* a mutant of InitSession: the lists are set without the "not in" tests
InitSession_always_reset ==
    /\ pc = "init"
    /\ session_keys' = session_keys \cup {"messages", "query_history"}
    /\ messages' = <<>>
    /\ query_history' = <<>>
    /\ pc' = "health"
    /\ UNCHANGED <<current_question, trigger, locals, screen, logs, pre>>

\* lines 46-50
InitSession ==
    /\ pc = "init"
    /\ session_keys' = session_keys \cup {"messages", "query_history"}
    /\ messages' = IF "messages" \in session_keys THEN messages ELSE <<>>
    /\ query_history' = IF "query_history" \in session_keys THEN query_history ELSE <<>>
    /\ pc' = "health"
    /\ UNCHANGED <<current_question, trigger, locals, screen, logs, pre>>

\* a mutant of HealthCheck: the script stops when the API is not available
HealthCheck_stop_when_down ==
    /\ pc = "health"
    /\ \E o \in HealthOutcomes :
         LET r == check_api_health(o) IN
         /\ health_response' = o
         /\ healthy' = r.returned
         /\ IF r.returned
            THEN /\ pc' = "quick"
                 /\ screen' = Append(screen, Element("success", Lit(<<"API Connected">>)))
            ELSE /\ pc' = "idle"
                 /\ screen' = screen \o <<Element("error", Lit(<<"API Not Available">>)),
                                          Element("info", Lit(<<"Please ensure the backend is running">>))>>
    /\ UNCHANGED <<session, trigger, question, outcome, result, logs, pre>>

\* lines 88-93
HealthCheck ==
    /\ pc = "health"
    /\ \E o \in HealthOutcomes :
         LET r == check_api_health(o) IN
         /\ health_response' = o
         /\ healthy' = r.returned
         /\ IF r.raised
            THEN /\ pc' = "idle"
                 /\ screen' = Append(screen, Element("exception", Lit(<<o.exc>>)))
            ELSE /\ pc' = "quick"
                 /\ screen' = IF r.returned
                              THEN Append(screen, Element("success", Lit(<<"API Connected">>)))
                              ELSE screen \o <<Element("error", Lit(<<"API Not Available">>)),
                                               Element("info", Lit(<<"Please ensure the backend is running">>))>>
    /\ UNCHANGED <<session, trigger, question, outcome, result, logs, pre>>

\* lines 106-109
QuickButtons ==
    /\ pc = "quick"
    /\ health_response' = NoResponse
    /\ IF trigger.widget = "quick"
       THEN /\ current_question' = trigger.text
            /\ session_keys' = session_keys \cup {"current_question"}
            /\ pc' = "rerun"
       ELSE /\ pc' = "clear"
            /\ UNCHANGED <<current_question, session_keys>>
    /\ UNCHANGED <<messages, query_history, trigger, healthy, question, outcome,
                   result, screen, logs, pre>>

\* a mutant of ClearButton: query_history is not cleared
ClearButton_messages_only ==
    /\ pc = "clear"
    /\ IF trigger.widget = "clear"
       THEN /\ messages' = <<>>
            /\ pc' = "rerun"
       ELSE /\ pc' = "display"
            /\ UNCHANGED messages
    /\ UNCHANGED <<session_keys, query_history, current_question, trigger, locals,
                   screen, logs, pre>>

\* lines 113-116
ClearButton ==
    /\ pc = "clear"
    /\ IF trigger.widget = "clear"
       THEN /\ messages' = <<>>
            /\ query_history' = <<>>
            /\ pc' = "rerun"
       ELSE /\ pc' = "display"
            /\ UNCHANGED <<messages, query_history>>
    /\ UNCHANGED <<session_keys, current_question, trigger, locals, screen, logs, pre>>

\* lines 118-128: what the loop shows of one message
RenderMessage(m) ==
    <<Element("markdown", m.content)>>
    \o (IF Truthy(Get(m, "sql_query", Absent))
        THEN <<Element("code", m.sql_query)>> ELSE <<>>)

RECURSIVE RenderAll(_)
RenderAll(ms) ==
    IF ms = <<>> THEN <<>> ELSE RenderMessage(Head(ms)) \o RenderAll(Tail(ms))

DisplayHistory ==
    /\ pc = "display"
    /\ screen' = screen \o RenderAll(messages)
    /\ pc' = "select"
    /\ UNCHANGED <<session, trigger, locals, logs, pre>>

\* a mutant of SelectQuestion: current_question is read and not deleted
SelectQuestion_keeps_key ==
    /\ pc = "select"
    /\ question' = (IF "current_question" \in session_keys THEN current_question
                    ELSE IF trigger.widget = "chat" THEN trigger.text
                    ELSE NoQuestion)
    /\ pc' = "ask"
    /\ UNCHANGED <<session, trigger, healthy, health_response, outcome, result,
                   screen, logs, pre>>

\* lines 177-182
SelectQuestion ==
    /\ pc = "select"
    /\ IF "current_question" \in session_keys
       THEN /\ question' = current_question
            /\ session_keys' = session_keys \ {"current_question"}
            /\ current_question' = NoQuestion
       ELSE /\ question' = (IF trigger.widget = "chat" THEN trigger.text ELSE NoQuestion)
            /\ UNCHANGED <<session_keys, current_question>>
    /\ pc' = "ask"
    /\ UNCHANGED <<messages, query_history, trigger, healthy, health_response,
                   outcome, result, screen, logs, pre>>

\* lines 184-190, and the footer (lines 270-279) when there is no question
BeginQuestion ==
    /\ pc = "ask"
    /\ IF question # NoQuestion
       THEN /\ messages' = Append(messages, [role |-> "user", content |-> Lit(question)])
            /\ screen' = Append(screen, Element("markdown", Lit(question)))
            /\ handled' = Append(handled, question)
            /\ pc' = "call"
       ELSE /\ screen' = Append(screen, Element("markdown", Lit(<<"footer">>)))
            /\ pc' = "idle"
            /\ UNCHANGED <<messages, handled>>
    /\ UNCHANGED <<session_keys, query_history, current_question, trigger, locals,
                   asked, posts, pre>>

\* lines 193-195
CallApi ==
    /\ pc = "call"
    /\ \E o \in AskOutcomes :
         LET r == call_api(question, o) IN
         /\ outcome' = o
         /\ posts' = posts \o r.sent
         /\ result' = r.value
         /\ screen' = screen \o r.shown
         /\ pc' = IF r.value = Raised THEN "idle" ELSE "result"
    /\ UNCHANGED <<session, trigger, healthy, health_response, question, asked,
                   handled, pre>>

\* datetime.now().isoformat(): the time is the number of requests made so far
Now == Lit(<<"request", Len(posts)>>)

\* a mutant of Succeeded: the success flag is not tested
Succeeded_ignores_flag(res) == ResultTruthy(res)

\* lines 197-198: the branch that stores and shows an answer
Succeeded(res) == ResultTruthy(res) /\ Truthy(Get(res.body, "success", Absent))

\* a mutant of message_data: the stored content takes the default shown
message_data_default_answer(res) ==
    [role |-> "assistant",
     content |-> Get(res.body, "answer", Lit(DefaultAnswer)),
     sql_query |-> Get(res.body, "sql_query", Lit(<<>>)),
     data |-> Get(res.body, "data", EmptyList),
     execution_time_ms |-> Get(res.body, "execution_time_ms", Zero),
     row_count |-> Get(res.body, "row_count", Zero)]

\* lines 203-210 (the modelled bodies carry no data, timing or row count, so
\* these three keys always take their defaults)
message_data(res) ==
    [role |-> "assistant",
     content |-> Get(res.body, "answer", Lit(<<>>)),
     sql_query |-> Get(res.body, "sql_query", Lit(<<>>)),
     data |-> Get(res.body, "data", EmptyList),
     execution_time_ms |-> Get(res.body, "execution_time_ms", Zero),
     row_count |-> Get(res.body, "row_count", Zero)]

\* lines 212-216
history_record(q, res, now) ==
    [question |-> q,
     sql |-> Get(res.body, "sql_query", Lit(<<>>)),
     timestamp |-> now]

\* a mutant of QueryFailedText: no default for a missing error field
QueryFailedText_no_default(res) ==
    QueryFailedPrefix \o Str(Get(res.body, "error", Lit(<<>>)))

\* line 264
QueryFailedText(res) ==
    QueryFailedPrefix \o Str(Get(res.body, "error", Lit(UnknownError)))

\* lines 197-266
HandleResult ==
    /\ pc = "result"
    /\ IF Succeeded(result)
       THEN /\ messages' = Append(messages, message_data(result))
            /\ query_history' = Append(query_history,
                                       history_record(question, result, Now))
            /\ screen' = screen \o
                   <<Element("markdown", Get(result.body, "answer", Lit(DefaultAnswer))),
                     Element("code", Get(result.body, "sql_query", Lit(<<>>))),
                     Element("info", Lit(<<"No data returned from query.">>))>>
       ELSE /\ screen' = Append(screen,
                   Element("error",
                           Lit(IF ResultTruthy(result)
                               THEN QueryFailedText(result)
                               ELSE ConnectFailedText)))
            /\ UNCHANGED <<messages, query_history>>
    /\ pc' = "rerun"
    /\ UNCHANGED <<session_keys, current_question, trigger, locals, logs, pre>>

\* st.rerun(), lines 109, 116 and 268: the script starts again, no widget fired
Rerun ==
    /\ pc = "rerun"
    /\ pc' = "init"
    /\ trigger' = NoTrigger
    /\ screen' = <<>>
    /\ ResetLocals
    /\ UNCHANGED <<session, logs, pre>>

Next ==
    \/ ChangeSetting
    \/ ClickQuick
    \/ ClickClear
    \/ SubmitChat
    \/ InitSession
    \/ HealthCheck
    \/ QuickButtons
    \/ ClearButton
    \/ DisplayHistory
    \/ SelectQuestion
    \/ BeginQuestion
    \/ CallApi
    \/ HandleResult
    \/ Rerun

Spec == Init /\ [][Next]_vars

\* the script runs to completion once started (synchronous, never cancelled);
\* the user is free never to interact again
ScriptStep ==
    \/ InitSession
    \/ HealthCheck
    \/ QuickButtons
    \/ ClearButton
    \/ DisplayHistory
    \/ SelectQuestion
    \/ BeginQuestion
    \/ CallApi
    \/ HandleResult
    \/ Rerun

FairSpec == Spec /\ WF_vars(ScriptStep)

----------------------------------------------------------------------------
(* Helpers of the properties *)

IsPrefix(a, b) == Len(a) <= Len(b) /\ SubSeq(b, 1, Len(a)) = a

Last(seq) == seq[Len(seq)]

Shows(widget, text) ==
    \E i \in 1..Len(screen) : screen[i] = Element(widget, Lit(text))

UserMessage(q) == [role |-> "user", content |-> Lit(q)]

\* the request of this run has been made and this was what it did
TimedOut == outcome.kind = "raise" /\ outcome.exc = "Timeout"
AnsweredSuccessTrue ==
    /\ outcome.kind = "json"
    /\ "success" \in DOMAIN outcome.body
    /\ outcome.body.success = True
AnsweredSuccessFalse ==
    /\ outcome.kind = "json"
    /\ "success" \in DOMAIN outcome.body
    /\ outcome.body.success = False
Unsuccessful ==
    \/ outcome.kind = "raise" /\ outcome.exc \in RequestExceptions
    \/ outcome.kind = "null"
    \/ outcome.kind = "json" /\ DOMAIN outcome.body = {}
    \/ outcome.kind = "json" /\ ~Truthy(Get(outcome.body, "success", Absent))

AssistantAt == {i \in 1..Len(messages) : messages[i].role = "assistant"}
Rank(i) == Cardinality({j \in AssistantAt : j <= i})

----------------------------------------------------------------------------
(* C1 *)

\* C1 as stated: after a timeout an error banner is shown and messages is
\* exactly the list it was before the interaction.
C1_TimeoutLeavesMessagesUntouched ==
    (TimedOut /\ pc = "rerun") =>
        /\ Shows("error", TimeoutText)
        /\ messages = pre.messages

\* C1 amended: after a timeout the exception is caught, the timeout banner is
\* shown, and messages is the list before the interaction with exactly one
\* entry added at the end, the user message of the question; no assistant
\* message is added.
C1_TimeoutAppendsOnlyUserMessage ==
    TimedOut =>
        /\ pc \in {"result", "rerun"}
        /\ Shows("error", TimeoutText)
        /\ messages = Append(pre.messages, UserMessage(question))
        /\ AssistantAt = {i \in 1..Len(pre.messages) : pre.messages[i].role = "assistant"}

C1_Witness ==
    /\ TimedOut
    /\ pc = "rerun"
    /\ Len(pre.messages) >= 2

----------------------------------------------------------------------------
(* C2 *)

\* C2 as stated: after an answer with success true, messages has gained one
\* entry, whose content is the answer field.
C2_SuccessAddsOneEntry ==
    (AnsweredSuccessTrue /\ pc = "rerun") =>
        /\ Len(messages) = Len(pre.messages) + 1
        /\ Last(messages).content = Get(outcome.body, "answer", Absent)

\* C2 amended: after an answer with success true, messages has gained two
\* entries, the user message of the question and then one assistant message
\* whose content is the answer field, or the empty string when the response
\* has no answer field.
C2_SuccessAddsUserAndAssistant ==
    (AnsweredSuccessTrue /\ pc = "rerun") =>
        /\ Len(messages) = Len(pre.messages) + 2
        /\ SubSeq(messages, 1, Len(pre.messages)) = pre.messages
        /\ messages[Len(messages) - 1] = UserMessage(question)
        /\ Last(messages).role = "assistant"
        /\ IF "answer" \in DOMAIN outcome.body
           THEN Last(messages).content = outcome.body.answer
           ELSE Last(messages).content = Lit(<<>>)

C2_Witness ==
    /\ AnsweredSuccessTrue
    /\ pc = "rerun"
    /\ "answer" \in DOMAIN outcome.body
    /\ Len(pre.messages) >= 1

----------------------------------------------------------------------------
(* C3 *)

\* C3 as stated: after an answer with success false, the text shown is the
\* error field itself, nothing when the field is absent.
C3_ErrorShownVerbatim ==
    (AnsweredSuccessFalse /\ pc = "rerun") =>
        Last(screen) = Element("error", Lit(Str(Get(outcome.body, "error", Absent))))

\* C3 amended: after an answer with success false, the text shown is
\* "Query failed: " followed by the error field as str() renders it, and
\* "Query failed: Unknown error" when the field is absent.
C3_ErrorShownAfterPrefix ==
    (AnsweredSuccessFalse /\ pc = "rerun") =>
        /\ Last(screen).widget = "error"
        /\ Last(screen).text.t = "str"
        /\ LET shown == Last(screen).text.s IN
           /\ Len(shown) > Len(QueryFailedPrefix)
           /\ SubSeq(shown, 1, Len(QueryFailedPrefix)) = QueryFailedPrefix
           /\ SubSeq(shown, Len(QueryFailedPrefix) + 1, Len(shown)) =
                 (IF "error" \notin DOMAIN outcome.body THEN UnknownError
                  ELSE IF outcome.body.error.t = "null" THEN <<"None">>
                  ELSE outcome.body.error.s)

C3_Witness ==
    /\ AnsweredSuccessFalse
    /\ pc = "rerun"
    /\ "error" \notin DOMAIN outcome.body

----------------------------------------------------------------------------
(* C4 *)

\* C4: every step leaves each of messages and query_history unchanged or
\* extends it at the end, except the Clear Chat History click, which empties
\* both together.
C4_AppendOnlyUntilCleared ==
    [][\/ /\ IsPrefix(messages, messages')
          /\ IsPrefix(query_history, query_history')
       \/ /\ pc = "clear"
          /\ trigger.widget = "clear"
          /\ messages' = <<>>
          /\ query_history' = <<>>]_vars

C4_Witness ==
    /\ pc = "rerun"
    /\ trigger.widget = "clear"
    /\ messages = <<>>
    /\ query_history = <<>>
    /\ Len(pre.messages) >= 2
    /\ Len(pre.query_history) >= 1

----------------------------------------------------------------------------
(* C5 *)

\* C5: the requests sent are, in order, the questions submitted: one request
\* per question whatever its outcome, at most one question waiting for its
\* request, and none waiting once its request was made or the script ended.
C5_OneRequestPerQuestion ==
    /\ IsPrefix(posts, asked)
    /\ Len(asked) <= Len(posts) + 1
    /\ (pc = "idle" \/ outcome # NoOutcome) => posts = asked

C5_Witness ==
    /\ pc = "idle"
    /\ outcome = NoOutcome
    /\ Len(posts) = 2
    /\ posts[1] \in quick_queries
    /\ posts[2] \in TypedQuestions

----------------------------------------------------------------------------
(* C6 *)

\* C6: check_api_health returns true exactly for a response with status 200;
\* an exception of the request is never passed on to the script.
C6_HealthyIffStatus200 ==
    health_response # NoResponse =>
        /\ pc = "quick"
        /\ healthy = (health_response.kind = "response" /\ health_response.status = 200)
        /\ ~Shows("exception", <<health_response.exc>>)

C6_Witness ==
    /\ pc = "quick"
    /\ health_response.kind = "raise"
    /\ health_response.exc = "ValueError"
    /\ ~healthy

----------------------------------------------------------------------------
(* C7 *)

\* C7: the health check changes neither list and always goes on to the rest
\* of the script; a run whose check failed reaches the chat input unless a
\* sidebar button reruns it, and a question submitted in such a run is sent.
C7_FailedHealthOnlyBanner ==
    /\ [][pc = "health" =>
            /\ pc' = "quick"
            /\ UNCHANGED <<messages, query_history>>]_vars
    /\ (pc = "quick" /\ ~healthy /\ trigger.widget \in {"none", "chat"})
          ~> (pc = "ask" /\ ~healthy /\ Shows("error", <<"API Not Available">>))
    /\ (pc = "quick" /\ ~healthy /\ trigger.widget = "chat")
          ~> (outcome # NoOutcome /\ ~healthy /\ posts # <<>> /\ Last(posts) = trigger.text)

C7_Witness ==
    /\ ~healthy
    /\ trigger.widget = "chat"
    /\ pc = "result"
    /\ Last(posts) = trigger.text
    /\ Shows("error", <<"API Not Available">>)

----------------------------------------------------------------------------
(* C8 *)

\* C8: after an unsuccessful outcome (a timeout, another request exception,
\* a falsy body, a body with a falsy success flag) nothing is raised into the
\* script, and the session state is the one before the interaction with the
\* user message added at the end of messages: no assistant message, the same
\* query_history, the same keys.
C8_FailureAddsOnlyUserMessage ==
    Unsuccessful =>
        /\ pc \in {"result", "rerun"}
        /\ result # Raised
        /\ messages = Append(pre.messages, UserMessage(question))
        /\ query_history = pre.query_history
        /\ session_keys = pre.keys
        /\ current_question = pre.current_question

C8_Witness ==
    /\ Unsuccessful
    /\ pc = "rerun"
    /\ outcome.kind = "json"
    /\ DOMAIN outcome.body # {}
    /\ trigger.widget = "none"
    /\ Len(pre.query_history) >= 1

----------------------------------------------------------------------------
(* C9 *)

\* C9: between script runs query_history has one record per assistant
\* message, each assistant message directly follows a user message, and the
\* i-th record holds that user message's question and the i-th assistant
\* message's sql_query.
C9_HistoryMirrorsAssistantMessages ==
    pc \in {"idle", "rerun", "init"} =>
        /\ Len(query_history) = Cardinality(AssistantAt)
        /\ \A i \in AssistantAt :
              /\ i > 1
              /\ messages[i - 1].role = "user"
              /\ Rank(i) <= Len(query_history)
              /\ Lit(query_history[Rank(i)].question) = messages[i - 1].content
              /\ query_history[Rank(i)].sql = messages[i].sql_query

C9_Witness ==
    /\ pc = "idle"
    /\ Len(messages) = 3
    /\ messages[2].role = "user"
    /\ messages[3].role = "assistant"
    /\ messages[1].content # messages[2].content

----------------------------------------------------------------------------
(* C10 *)

\* C10: current_question is present only from the quick-query click to the
\* question selection of the next run, where it holds the question clicked,
\* not yet handled; it is absent when the API is called and when a run has
\* ended; the questions handled are, in order, the questions submitted, each
\* once, and the question of a run is the one still waiting.
C10_QuickQuestionConsumedOnce ==
    /\ "current_question" \in session_keys =>
          /\ pc \in {"rerun", "init", "health", "quick", "clear", "display", "select"}
          /\ asked # <<>>
          /\ current_question = Last(asked)
          /\ current_question \in quick_queries
          /\ Len(handled) = Len(asked) - 1
    /\ pc \in {"idle", "call", "result"} => "current_question" \notin session_keys
    /\ IsPrefix(handled, asked)
    /\ Len(asked) <= Len(handled) + 1
    /\ pc = "idle" => handled = asked
    /\ (pc = "ask" /\ question # NoQuestion) =>
          (Len(asked) = Len(handled) + 1 /\ question = Last(asked))

C10_Witness ==
    /\ pc = "call"
    /\ trigger.widget = "none"
    /\ question \in quick_queries
    /\ "current_question" \notin session_keys
    /\ Len(handled) = 2

====
